---- MODULE Spec2Model ----
(***************************************************************************)
(* A model of the Speedtest exporter (src/src/exporter.py): the parsing of *)
(* the measurement tool's output (run_speedtest), the time-based result    *)
(* cache (get_metrics), the gauges (update_prometheus_metrics), the        *)
(* /metrics and /health routes, served by a pool of worker threads         *)
(* (waitress), and the start of the process (main).                        *)
(*                                                                         *)
(* Python values are tagged records, [t |-> tag] and the fields of the tag: *)
(*   "None"  None (JSON null)          "bool"  b: TRUE or FALSE            *)
(*   "str"   s: the characters         "list"  l: a sequence of values     *)
(*   "dict"  d: a record key |-> value "exc"   e: a raised exception       *)
(*   "metrics"  m: the six metrics                                         *)
(*   "int"   neg, digits: the sign and the decimal digits of the number    *)
(*   "float" neg, m, e: the double m * 2^e, with its sign; m is odd, or 0  *)
(*   "inf"   neg: its sign             "nan"                               *)
(* An int has as many digits as it needs, and a float is one of the        *)
(* doubles of IEEE 754: every int and every float of Python is one value   *)
(* here, and the conversions and the product round as the interpreter      *)
(* does.                                                                   *)
(* An operator that models an expression returns either its value or the   *)
(* exception it raises; an exception in a sub-expression propagates.       *)
(***************************************************************************)
EXTENDS Integers, Sequences, FiniteSets, TLC

----------------------------------------------------------------------------
(* Natural numbers of any size, as the sequence of their decimal digits,  *)
(* the first digit first and not 0: <<1, 0, 2, 4>> is 1024, <<0>> is zero. *)

Abs(n) == IF n < 0 THEN 0 - n ELSE n
Max(a, b) == IF a >= b THEN a ELSE b

\* the digits of a number that fits a machine word, and back
RECURSIVE Digits(_)
Digits(n) == IF n < 10 THEN <<n>> ELSE Append(Digits(n \div 10), n % 10)

RECURSIVE Number(_)
Number(d) == IF Len(d) = 1 THEN d[1]
             ELSE 10 * Number(SubSeq(d, 1, Len(d) - 1)) + d[Len(d)]

Zeros(n) == <<>> \o [i \in 1..n |-> 0]

\* d without the zeros it begins with
Trim(d) ==
    IF \A i \in 1..Len(d) : d[i] = 0 THEN <<0>>
    ELSE SubSeq(d, CHOOSE i \in 1..Len(d) : d[i] # 0 /\ \A j \in 1..(i - 1) : d[j] = 0,
                Len(d))

\* a < b
Less(a, b) ==
    \/ Len(a) < Len(b)
    \/ /\ Len(a) = Len(b)
       /\ a # b
       /\ LET i == CHOOSE i \in 1..Len(a) : a[i] # b[i] /\ \A j \in 1..(i - 1) : a[j] = b[j]
          IN  a[i] < b[i]

IsOdd(a) == a[Len(a)] % 2 = 1

\* 2 * a: a digit carries 1 into the digit before it when it is 5 or more
Twice(a) ==
    LET r == [i \in 1..Len(a) |->
                 ((2 * a[i]) % 10) + (IF i < Len(a) /\ a[i + 1] >= 5 THEN 1 ELSE 0)]
    IN  (IF a[1] >= 5 THEN <<1>> ELSE <<>>) \o r

\* a \div 2: an odd digit carries 10 into the digit after it
Half(a) ==
    Trim(<<>> \o [i \in 1..Len(a) |->
                      (a[i] + (IF i > 1 /\ a[i - 1] % 2 = 1 THEN 10 ELSE 0)) \div 2])

\* a * 2^n
RECURSIVE Doubled(_, _)
Doubled(a, n) ==
    IF n = 0 THEN a
    ELSE IF n = 1 THEN Twice(a)
    ELSE LET h == Doubled(a, n \div 2)
         IN  IF h = <<>> THEN h ELSE Doubled(h, n - n \div 2)

\* a \div 2^n
RECURSIVE Halved(_, _)
Halved(a, n) ==
    IF n = 0 THEN a
    ELSE IF n = 1 THEN Half(a)
    ELSE LET h == Halved(a, n \div 2)
         IN  IF h = <<>> THEN h ELSE Halved(h, n - n \div 2)

\* a + 1
Succ(a) ==
    IF \A i \in 1..Len(a) : a[i] = 9 THEN <<1>> \o Zeros(Len(a))
    ELSE LET k == CHOOSE k \in 1..Len(a) : a[k] # 9 /\ \A j \in (k + 1)..Len(a) : a[j] = 9
         IN  <<>> \o [i \in 1..Len(a) |->
                         IF i < k THEN a[i] ELSE IF i = k THEN a[i] + 1 ELSE 0]

\* the powers of two up to 2^64, and the number of bits of a number below
\* 2^64
TwoTo == [k \in 0..64 |-> Doubled(<<1>>, k)]

BitLength(a) ==
    IF a = <<0>> THEN 0
    ELSE CHOOSE k \in 1..64 : ~Less(a, TwoTo[k - 1]) /\ Less(a, TwoTo[k])

\* n * 2^e = q * 2^f with q odd, for n that is not zero: <<q, f>>; for a
\* number that fits a machine word, and for a number of any size
RECURSIVE OddWord(_, _)
OddWord(n, e) == IF n % 2 = 1 THEN <<n, e>> ELSE OddWord(n \div 2, e + 1)

RECURSIVE OddPart(_, _)
OddPart(q, e) ==
    IF Len(q) <= 9 THEN <<Digits(OddWord(Number(q), e)[1]), OddWord(Number(q), e)[2]>>
    ELSE IF IsOdd(q) THEN <<q, e>>
    ELSE LET h == Half(q) IN IF h = <<>> THEN <<h, e>> ELSE OddPart(h, e + 1)

RECURSIVE FiveTo(_)
FiveTo(n) == IF n = 0 THEN 1 ELSE 5 * FiveTo(n - 1)

----------------------------------------------------------------------------
(* Python values *)

PyNone == [t |-> "None"]
\* the int of the sign and the digits, and the int of a number that fits a
\* machine word
BigInt(negative, digits) ==
    [t |-> "int", neg |-> negative /\ digits # <<0>>, digits |-> digits]
PyInt(n) == BigInt(n < 0, Digits(Abs(n)))
PyStr(s) == [t |-> "str", s |-> s]
PyList(q) == [t |-> "list", l |-> q]
PyDict(f) == [t |-> "dict", d |-> f]

\* raise type(msg), with the value a message is formatted from (or None)
Exc(type, msg, detail) ==
    [t |-> "exc", e |-> [type |-> type, msg |-> msg, detail |-> detail]]

Raised(x) == x.t = "exc"

\* the characters of the string literals the code uses as keys and markers
Chars(lit) ==
    CASE lit = "error" -> <<"e", "r", "r", "o", "r">>
      [] lit = "result" -> <<"r", "e", "s", "u", "l", "t">>
      [] lit = "OK" -> <<"O", "K">>
      [] lit = "ERROR" -> <<"E", "R", "R", "O", "R">>
      [] lit = "Speedtest by Ookla" ->
           <<"S", "p", "e", "e", "d", "t", "e", "s", "t", " ", "b", "y", " ",
             "O", "o", "k", "l", "a">>
      [] lit = "speedtest-cli" ->
           <<"s", "p", "e", "e", "d", "t", "e", "s", "t", "-", "c", "l", "i">>

\* needle in haystack, for two str: needle is a substring of haystack
IsSubstring(needle, hay) ==
    \E i \in 1..(Len(hay) - Len(needle) + 1) :
        SubSeq(hay, i, i + Len(needle) - 1) = needle

PyBool(b) == [t |-> "bool", b |-> b]

\* `key in x` for a str literal key (the Python `in` operator): a key of a
\* dict, a substring of a str, an element of a list
Contains(x, key) ==
    CASE x.t = "exc" -> x
      [] x.t = "dict" -> PyBool(key \in DOMAIN x.d)
      [] x.t = "str" -> PyBool(IsSubstring(Chars(key), x.s))
      [] x.t = "list" -> PyBool(\E i \in 1..Len(x.l) : x.l[i] = PyStr(Chars(key)))
      [] OTHER -> Exc("TypeError", "argument is not iterable", PyNone)

\* x[key] for a str key
Subscript(x, key) ==
    CASE x.t = "exc" -> x
      [] x.t = "dict" -> IF key \in DOMAIN x.d THEN x.d[key]
                         ELSE Exc("KeyError", key, PyNone)
      [] x.t \in {"str", "list"} -> Exc("TypeError", "indices must be integers", PyNone)
      [] OTHER -> Exc("TypeError", "object is not subscriptable", PyNone)

\* x.get(key): dict.get, None when the key is absent
DictGet(x, key) ==
    CASE x.t = "exc" -> x
      [] x.t = "dict" -> IF key \in DOMAIN x.d THEN x.d[key] ELSE PyNone
      [] OTHER -> Exc("AttributeError", "object has no attribute 'get'", PyNone)

\* A float is a double: m * 2^e with an odd m below 2^53, e from -1074 on
\* and m * 2^e below 2^1024, with its sign; or zero, with its sign (0.0 and
\* -0.0); or inf, -inf or nan.
PyInf(negative) == [t |-> "inf", neg |-> negative]
PyNan == [t |-> "nan"]
PyZero(negative) == [t |-> "float", neg |-> negative, m |-> <<0>>, e |-> 0]

\* the float q * 2^e for q below 2^54 and e from -1074 on: inf from 2^1024
\* on
Binary(negative, q, e) ==
    IF q = <<0>> THEN PyZero(negative)
    ELSE IF e > 970 /\ BitLength(q) + e > 1024 THEN PyInf(negative)
    ELSE LET odd == OddPart(q, e)
         IN  [t |-> "float", neg |-> negative, m |-> odd[1], e |-> odd[2]]

\* D * 10^E / 2^e as N * 10^F, <<N, F>>: a division by 2 is a product by 5
\* and a division by 10
Scaled(D, E, e) ==
    IF e <= 0 THEN <<Doubled(D, 0 - e), E>>
    ELSE <<Halved(D \o Zeros(e), e), E - e>>

\* the whole part of N * 10^F and the digits after its point
Whole(s) ==
    IF s[2] >= 0 THEN s[1] \o Zeros(s[2])
    ELSE IF Len(s[1]) <= 0 - s[2] THEN <<0>>
    ELSE SubSeq(s[1], 1, Len(s[1]) + s[2])

Rest(s) ==
    IF s[2] >= 0 THEN <<>>
    ELSE IF Len(s[1]) <= 0 - s[2] THEN Zeros(0 - s[2] - Len(s[1])) \o s[1]
    ELSE SubSeq(s[1], Len(s[1]) + s[2] + 1, Len(s[1]))

\* round half to even: the whole part T is rounded up when the rest R is
\* above a half, or is a half and T is odd
RoundsUp(T, R) ==
    /\ R # <<>>
    /\ \/ R[1] > 5
       \/ /\ R[1] = 5
          /\ (\E i \in 2..Len(R) : R[i] # 0) \/ IsOdd(T)

\* The float nearest to the decimal D * 10^E, ties to the even one. The
\* decimal is divided by 2^e, with e from the number of its digits (33219 /
\* 10000 is a little less than the binary logarithm of 10) and not below
\* -1074, the exponent of the subnormal floats; it is halved further until
\* its whole part has at most 53 bits, and the whole part is rounded by the
\* digits after the point.
ScaleOf(D, E) == Max(((Len(D) - 1 + E) * 33219) \div 10000 - 53, -1074)

\* the decimal s = <<N, F>> rounded to a whole number, times 2^e
Rounded(negative, s, e) ==
    Binary(negative, IF RoundsUp(Whole(s), Rest(s)) THEN Succ(Whole(s)) ELSE Whole(s), e)

\* the decimal s, times 2^e, with `up` bits more than 53 in its whole part
Fitted(negative, s, e, up) ==
    Rounded(negative, <<Halved(s[1] \o Zeros(up), up), s[2] - up>>, e + up)

Placed(negative, s, e) == Fitted(negative, s, e, Max(BitLength(Whole(s)) - 53, 0))

\* decimals from 10^309 on are inf and those below 10^-324 are zero; whole
\* numbers of up to 15 digits and short decimals that are a whole number
\* over a power of two are floats as they are
Nearest(negative, D, E) ==
    IF D = <<0>> THEN PyZero(negative)
    ELSE IF Len(D) - 1 + E >= 309 THEN PyInf(negative)
    ELSE IF Len(D) - 1 + E <= -325 THEN PyZero(negative)
    ELSE IF E >= 0 /\ Len(D) + E <= 15 THEN Binary(negative, D \o Zeros(E), 0)
    ELSE IF E < 0 /\ E >= -9 /\ Len(D) <= 9 /\ Number(D) % FiveTo(0 - E) = 0
    THEN Binary(negative, Digits(Number(D) \div FiveTo(0 - E)), E)
    ELSE Placed(negative, Scaled(D, E, ScaleOf(D, E)), ScaleOf(D, E))

\* the float that the decimal sig * 10^exp10 is read as
PyFloat(sig, exp10) == Nearest(sig < 0, Digits(Abs(sig)), exp10)

\* the whole part of the float f that is not zero, without its sign
Truncated(f) ==
    IF f.e >= 0 THEN Doubled(f.m, f.e)
    ELSE IF 0 - f.e > 53 THEN <<0>>
    ELSE Halved(f.m, 0 - f.e)

\* A character of a str is written as itself when it is a printable ASCII
\* character or one of \t, \n, \f, \r, and as its code point, "U+000B",
\* otherwise.
DigitChars == <<"0", "1", "2", "3", "4", "5", "6", "7", "8", "9">>

\* the decimal digits of the other scripts (unicodedata.decimal), which
\* int() and float() read as the digits 0 to 9: each row is the digits 0 to
\* 9 of one script
UnicodeDigits ==
    <<
       <<"U+0660", "U+0661", "U+0662", "U+0663", "U+0664", "U+0665", "U+0666", "U+0667", "U+0668", "U+0669">>,
       <<"U+06F0", "U+06F1", "U+06F2", "U+06F3", "U+06F4", "U+06F5", "U+06F6", "U+06F7", "U+06F8", "U+06F9">>,
       <<"U+07C0", "U+07C1", "U+07C2", "U+07C3", "U+07C4", "U+07C5", "U+07C6", "U+07C7", "U+07C8", "U+07C9">>,
       <<"U+0966", "U+0967", "U+0968", "U+0969", "U+096A", "U+096B", "U+096C", "U+096D", "U+096E", "U+096F">>,
       <<"U+09E6", "U+09E7", "U+09E8", "U+09E9", "U+09EA", "U+09EB", "U+09EC", "U+09ED", "U+09EE", "U+09EF">>,
       <<"U+0A66", "U+0A67", "U+0A68", "U+0A69", "U+0A6A", "U+0A6B", "U+0A6C", "U+0A6D", "U+0A6E", "U+0A6F">>,
       <<"U+0AE6", "U+0AE7", "U+0AE8", "U+0AE9", "U+0AEA", "U+0AEB", "U+0AEC", "U+0AED", "U+0AEE", "U+0AEF">>,
       <<"U+0B66", "U+0B67", "U+0B68", "U+0B69", "U+0B6A", "U+0B6B", "U+0B6C", "U+0B6D", "U+0B6E", "U+0B6F">>,
       <<"U+0BE6", "U+0BE7", "U+0BE8", "U+0BE9", "U+0BEA", "U+0BEB", "U+0BEC", "U+0BED", "U+0BEE", "U+0BEF">>,
       <<"U+0C66", "U+0C67", "U+0C68", "U+0C69", "U+0C6A", "U+0C6B", "U+0C6C", "U+0C6D", "U+0C6E", "U+0C6F">>,
       <<"U+0CE6", "U+0CE7", "U+0CE8", "U+0CE9", "U+0CEA", "U+0CEB", "U+0CEC", "U+0CED", "U+0CEE", "U+0CEF">>,
       <<"U+0D66", "U+0D67", "U+0D68", "U+0D69", "U+0D6A", "U+0D6B", "U+0D6C", "U+0D6D", "U+0D6E", "U+0D6F">>,
       <<"U+0DE6", "U+0DE7", "U+0DE8", "U+0DE9", "U+0DEA", "U+0DEB", "U+0DEC", "U+0DED", "U+0DEE", "U+0DEF">>,
       <<"U+0E50", "U+0E51", "U+0E52", "U+0E53", "U+0E54", "U+0E55", "U+0E56", "U+0E57", "U+0E58", "U+0E59">>,
       <<"U+0ED0", "U+0ED1", "U+0ED2", "U+0ED3", "U+0ED4", "U+0ED5", "U+0ED6", "U+0ED7", "U+0ED8", "U+0ED9">>,
       <<"U+0F20", "U+0F21", "U+0F22", "U+0F23", "U+0F24", "U+0F25", "U+0F26", "U+0F27", "U+0F28", "U+0F29">>,
       <<"U+1040", "U+1041", "U+1042", "U+1043", "U+1044", "U+1045", "U+1046", "U+1047", "U+1048", "U+1049">>,
       <<"U+1090", "U+1091", "U+1092", "U+1093", "U+1094", "U+1095", "U+1096", "U+1097", "U+1098", "U+1099">>,
       <<"U+17E0", "U+17E1", "U+17E2", "U+17E3", "U+17E4", "U+17E5", "U+17E6", "U+17E7", "U+17E8", "U+17E9">>,
       <<"U+1810", "U+1811", "U+1812", "U+1813", "U+1814", "U+1815", "U+1816", "U+1817", "U+1818", "U+1819">>,
       <<"U+1946", "U+1947", "U+1948", "U+1949", "U+194A", "U+194B", "U+194C", "U+194D", "U+194E", "U+194F">>,
       <<"U+19D0", "U+19D1", "U+19D2", "U+19D3", "U+19D4", "U+19D5", "U+19D6", "U+19D7", "U+19D8", "U+19D9">>,
       <<"U+1A80", "U+1A81", "U+1A82", "U+1A83", "U+1A84", "U+1A85", "U+1A86", "U+1A87", "U+1A88", "U+1A89">>,
       <<"U+1A90", "U+1A91", "U+1A92", "U+1A93", "U+1A94", "U+1A95", "U+1A96", "U+1A97", "U+1A98", "U+1A99">>,
       <<"U+1B50", "U+1B51", "U+1B52", "U+1B53", "U+1B54", "U+1B55", "U+1B56", "U+1B57", "U+1B58", "U+1B59">>,
       <<"U+1BB0", "U+1BB1", "U+1BB2", "U+1BB3", "U+1BB4", "U+1BB5", "U+1BB6", "U+1BB7", "U+1BB8", "U+1BB9">>,
       <<"U+1C40", "U+1C41", "U+1C42", "U+1C43", "U+1C44", "U+1C45", "U+1C46", "U+1C47", "U+1C48", "U+1C49">>,
       <<"U+1C50", "U+1C51", "U+1C52", "U+1C53", "U+1C54", "U+1C55", "U+1C56", "U+1C57", "U+1C58", "U+1C59">>,
       <<"U+A620", "U+A621", "U+A622", "U+A623", "U+A624", "U+A625", "U+A626", "U+A627", "U+A628", "U+A629">>,
       <<"U+A8D0", "U+A8D1", "U+A8D2", "U+A8D3", "U+A8D4", "U+A8D5", "U+A8D6", "U+A8D7", "U+A8D8", "U+A8D9">>,
       <<"U+A900", "U+A901", "U+A902", "U+A903", "U+A904", "U+A905", "U+A906", "U+A907", "U+A908", "U+A909">>,
       <<"U+A9D0", "U+A9D1", "U+A9D2", "U+A9D3", "U+A9D4", "U+A9D5", "U+A9D6", "U+A9D7", "U+A9D8", "U+A9D9">>,
       <<"U+A9F0", "U+A9F1", "U+A9F2", "U+A9F3", "U+A9F4", "U+A9F5", "U+A9F6", "U+A9F7", "U+A9F8", "U+A9F9">>,
       <<"U+AA50", "U+AA51", "U+AA52", "U+AA53", "U+AA54", "U+AA55", "U+AA56", "U+AA57", "U+AA58", "U+AA59">>,
       <<"U+ABF0", "U+ABF1", "U+ABF2", "U+ABF3", "U+ABF4", "U+ABF5", "U+ABF6", "U+ABF7", "U+ABF8", "U+ABF9">>,
       <<"U+FF10", "U+FF11", "U+FF12", "U+FF13", "U+FF14", "U+FF15", "U+FF16", "U+FF17", "U+FF18", "U+FF19">>,
       <<"U+104A0", "U+104A1", "U+104A2", "U+104A3", "U+104A4", "U+104A5", "U+104A6", "U+104A7", "U+104A8", "U+104A9">>,
       <<"U+10D30", "U+10D31", "U+10D32", "U+10D33", "U+10D34", "U+10D35", "U+10D36", "U+10D37", "U+10D38", "U+10D39">>,
       <<"U+11066", "U+11067", "U+11068", "U+11069", "U+1106A", "U+1106B", "U+1106C", "U+1106D", "U+1106E", "U+1106F">>,
       <<"U+110F0", "U+110F1", "U+110F2", "U+110F3", "U+110F4", "U+110F5", "U+110F6", "U+110F7", "U+110F8", "U+110F9">>,
       <<"U+11136", "U+11137", "U+11138", "U+11139", "U+1113A", "U+1113B", "U+1113C", "U+1113D", "U+1113E", "U+1113F">>,
       <<"U+111D0", "U+111D1", "U+111D2", "U+111D3", "U+111D4", "U+111D5", "U+111D6", "U+111D7", "U+111D8", "U+111D9">>,
       <<"U+112F0", "U+112F1", "U+112F2", "U+112F3", "U+112F4", "U+112F5", "U+112F6", "U+112F7", "U+112F8", "U+112F9">>,
       <<"U+11450", "U+11451", "U+11452", "U+11453", "U+11454", "U+11455", "U+11456", "U+11457", "U+11458", "U+11459">>,
       <<"U+114D0", "U+114D1", "U+114D2", "U+114D3", "U+114D4", "U+114D5", "U+114D6", "U+114D7", "U+114D8", "U+114D9">>,
       <<"U+11650", "U+11651", "U+11652", "U+11653", "U+11654", "U+11655", "U+11656", "U+11657", "U+11658", "U+11659">>,
       <<"U+116C0", "U+116C1", "U+116C2", "U+116C3", "U+116C4", "U+116C5", "U+116C6", "U+116C7", "U+116C8", "U+116C9">>,
       <<"U+11730", "U+11731", "U+11732", "U+11733", "U+11734", "U+11735", "U+11736", "U+11737", "U+11738", "U+11739">>,
       <<"U+118E0", "U+118E1", "U+118E2", "U+118E3", "U+118E4", "U+118E5", "U+118E6", "U+118E7", "U+118E8", "U+118E9">>,
       <<"U+11950", "U+11951", "U+11952", "U+11953", "U+11954", "U+11955", "U+11956", "U+11957", "U+11958", "U+11959">>,
       <<"U+11C50", "U+11C51", "U+11C52", "U+11C53", "U+11C54", "U+11C55", "U+11C56", "U+11C57", "U+11C58", "U+11C59">>,
       <<"U+11D50", "U+11D51", "U+11D52", "U+11D53", "U+11D54", "U+11D55", "U+11D56", "U+11D57", "U+11D58", "U+11D59">>,
       <<"U+11DA0", "U+11DA1", "U+11DA2", "U+11DA3", "U+11DA4", "U+11DA5", "U+11DA6", "U+11DA7", "U+11DA8", "U+11DA9">>,
       <<"U+16A60", "U+16A61", "U+16A62", "U+16A63", "U+16A64", "U+16A65", "U+16A66", "U+16A67", "U+16A68", "U+16A69">>,
       <<"U+16AC0", "U+16AC1", "U+16AC2", "U+16AC3", "U+16AC4", "U+16AC5", "U+16AC6", "U+16AC7", "U+16AC8", "U+16AC9">>,
       <<"U+16B50", "U+16B51", "U+16B52", "U+16B53", "U+16B54", "U+16B55", "U+16B56", "U+16B57", "U+16B58", "U+16B59">>,
       <<"U+1D7CE", "U+1D7CF", "U+1D7D0", "U+1D7D1", "U+1D7D2", "U+1D7D3", "U+1D7D4", "U+1D7D5", "U+1D7D6", "U+1D7D7">>,
       <<"U+1D7D8", "U+1D7D9", "U+1D7DA", "U+1D7DB", "U+1D7DC", "U+1D7DD", "U+1D7DE", "U+1D7DF", "U+1D7E0", "U+1D7E1">>,
       <<"U+1D7E2", "U+1D7E3", "U+1D7E4", "U+1D7E5", "U+1D7E6", "U+1D7E7", "U+1D7E8", "U+1D7E9", "U+1D7EA", "U+1D7EB">>,
       <<"U+1D7EC", "U+1D7ED", "U+1D7EE", "U+1D7EF", "U+1D7F0", "U+1D7F1", "U+1D7F2", "U+1D7F3", "U+1D7F4", "U+1D7F5">>,
       <<"U+1D7F6", "U+1D7F7", "U+1D7F8", "U+1D7F9", "U+1D7FA", "U+1D7FB", "U+1D7FC", "U+1D7FD", "U+1D7FE", "U+1D7FF">>,
       <<"U+1E140", "U+1E141", "U+1E142", "U+1E143", "U+1E144", "U+1E145", "U+1E146", "U+1E147", "U+1E148", "U+1E149">>,
       <<"U+1E2F0", "U+1E2F1", "U+1E2F2", "U+1E2F3", "U+1E2F4", "U+1E2F5", "U+1E2F6", "U+1E2F7", "U+1E2F8", "U+1E2F9">>,
       <<"U+1E950", "U+1E951", "U+1E952", "U+1E953", "U+1E954", "U+1E955", "U+1E956", "U+1E957", "U+1E958", "U+1E959">>,
       <<"U+1FBF0", "U+1FBF1", "U+1FBF2", "U+1FBF3", "U+1FBF4", "U+1FBF5", "U+1FBF6", "U+1FBF7", "U+1FBF8", "U+1FBF9">>
    >>

IsAsciiDigit(c) == \E d \in 1..10 : DigitChars[d] = c
IsUnicodeDigit(c) ==
    \E r \in 1..Len(UnicodeDigits) : \E d \in 1..10 : UnicodeDigits[r][d] = c
IsDigit(c) == IsAsciiDigit(c) \/ IsUnicodeDigit(c)
DigitVal(c) ==
    IF IsAsciiDigit(c) THEN (CHOOSE d \in 1..10 : DigitChars[d] = c) - 1
    ELSE (CHOOSE d \in 1..10 :
             \E r \in 1..Len(UnicodeDigits) : UnicodeDigits[r][d] = c) - 1

\* the number the digit characters s write
ParseDigits(s) == Trim(<<>> \o [i \in 1..Len(s) |-> DigitVal(s[i])])

\* the whitespace of ASCII: space, \t, \n, \v, \f, \r
AsciiSpaces == {" ", "\t", "\n", "U+000B", "\f", "\r"}

\* the whitespace beyond ASCII (str.isspace)
UnicodeSpaces ==
    {
     "U+0085", "U+00A0", "U+1680", "U+2000", "U+2001", "U+2002", "U+2003",
     "U+2004", "U+2005", "U+2006", "U+2007", "U+2008", "U+2009", "U+200A",
     "U+2028", "U+2029", "U+202F", "U+205F", "U+3000"
    }

\* The whitespace int() and float() drop at both ends of a str: they turn
\* the whitespace beyond ASCII into spaces and then skip the whitespace of
\* ASCII. (U+001C to U+001F, which str.strip() drops, are kept.)
IsSpace(c) == c \in AsciiSpaces \/ c \in UnicodeSpaces

Strip(s) ==
    IF \A i \in 1..Len(s) : IsSpace(s[i]) THEN <<>>
    ELSE SubSeq(s,
                CHOOSE i \in 1..Len(s) :
                    ~IsSpace(s[i]) /\ \A j \in 1..(i - 1) : IsSpace(s[j]),
                CHOOSE i \in 1..Len(s) :
                    ~IsSpace(s[i]) /\ \A j \in (i + 1)..Len(s) : IsSpace(s[j]))

\* digits, with single underscores between digits
IsDigitGroup(s) ==
    /\ Len(s) > 0
    /\ s[1] # "_"
    /\ s[Len(s)] # "_"
    /\ \A i \in 1..Len(s) :
          IsDigit(s[i]) \/ (s[i] = "_" /\ s[i - 1] # "_" /\ s[i + 1] # "_")

DigitsOf(s) == SelectSeq(s, IsDigit)

HasSign(s) == Len(s) > 0 /\ s[1] \in {"+", "-"}
Unsigned(s) == IF HasSign(s) THEN Tail(s) ELSE s
IsNegative(s) == HasSign(s) /\ s[1] = "-"
Signed(s, n) == IF IsNegative(s) THEN 0 - n ELSE n

\* the position of the first character of s that is in the set cs, or 0
FirstOf(s, cs) ==
    IF \E i \in 1..Len(s) : s[i] \in cs
    THEN CHOOSE i \in 1..Len(s) : s[i] \in cs /\ \A k \in 1..(i - 1) : s[k] \notin cs
    ELSE 0

\* the text is a decimal integer literal of int(): an optional sign and a
\* digit group, with whitespace around
IsIntLiteral(s) == IsDigitGroup(Unsigned(Strip(s)))

\* sys.int_info.default_max_str_digits: int() reads no str of more digits
MaxStrDigits == 4300

\* the digits and underscores s begins with
DigitRun(s) ==
    LET others == {i \in 1..Len(s) : ~(IsDigit(s[i]) \/ s[i] = "_")}
    IN  IF others = {} THEN s
        ELSE SubSeq(s, 1, (CHOOSE i \in others : \A j \in others : i <= j) - 1)

\* int() counts the digits it finds after the sign, before it looks at
\* what follows them, and gives up above MaxStrDigits
ExceedsDigitLimit(s) ==
    LET run == DigitRun(Unsigned(Strip(s)))
    IN  IsDigitGroup(run) /\ Len(DigitsOf(run)) > MaxStrDigits

IntLiteral(s) == BigInt(IsNegative(Strip(s)), ParseDigits(DigitsOf(Unsigned(Strip(s)))))

LowerChar(c) ==
    CASE c = "I" -> "i" [] c = "N" -> "n" [] c = "F" -> "f" [] c = "T" -> "t"
      [] c = "Y" -> "y" [] c = "A" -> "a" [] OTHER -> c

Lower(s) == [i \in 1..Len(s) |-> LowerChar(s[i])]

\* the parts of a decimal float literal without its sign: the digits before
\* and after the point and the exponent
Mantissa(u) ==
    IF FirstOf(u, {"e", "E"}) = 0 THEN u ELSE SubSeq(u, 1, FirstOf(u, {"e", "E"}) - 1)
Exponent(u) ==
    IF FirstOf(u, {"e", "E"}) = 0 THEN <<>>
    ELSE SubSeq(u, FirstOf(u, {"e", "E"}) + 1, Len(u))
WholePart(u) ==
    IF FirstOf(Mantissa(u), {"."}) = 0 THEN Mantissa(u)
    ELSE SubSeq(Mantissa(u), 1, FirstOf(Mantissa(u), {"."}) - 1)
Fraction(u) ==
    IF FirstOf(Mantissa(u), {"."}) = 0 THEN <<>>
    ELSE SubSeq(Mantissa(u), FirstOf(Mantissa(u), {"."}) + 1, Len(Mantissa(u)))

IsDecimalLiteral(u) ==
    /\ WholePart(u) = <<>> \/ IsDigitGroup(WholePart(u))
    /\ Fraction(u) = <<>> \/ IsDigitGroup(Fraction(u))
    /\ WholePart(u) # <<>> \/ Fraction(u) # <<>>
    /\ FirstOf(u, {"e", "E"}) # 0 => IsDigitGroup(Unsigned(Exponent(u)))

\* the exponent a decimal is written with; one of more than nine digits is
\* as good as 10^9, beyond every float
ExponentOf(u) ==
    LET digits == ParseDigits(DigitsOf(Unsigned(Exponent(u))))
    IN  Signed(Exponent(u), IF Len(digits) > 9 THEN 1000000000 ELSE Number(digits))

\* the float of the decimal u, with a minus sign before it when negative
DecimalLiteral(u, negative) ==
    Nearest(negative, ParseDigits(DigitsOf(WholePart(u)) \o DigitsOf(Fraction(u))),
            ExponentOf(u) - Len(DigitsOf(Fraction(u))))

InfinityNames == {<<"i", "n", "f">>, <<"i", "n", "f", "i", "n", "i", "t", "y">>}

\* the text is a literal of float(): inf, infinity or nan in any case, or a
\* decimal with an optional point and exponent; an optional sign before,
\* whitespace around
IsFloatLiteral(s) ==
    LET u == Unsigned(Strip(s))
    IN  Lower(u) \in InfinityNames \/ Lower(u) = <<"n", "a", "n">>
            \/ IsDecimalLiteral(u)

FloatLiteral(s) ==
    LET u == Unsigned(Strip(s))
        negative == IsNegative(Strip(s))
    IN  IF Lower(u) \in InfinityNames THEN PyInf(negative)
        ELSE IF Lower(u) = <<"n", "a", "n">> THEN PyNan
        ELSE DecimalLiteral(u, negative)

\* int(x): an int is kept, a bool is 0 or 1, a float loses its decimals
\* (inf raises OverflowError, nan ValueError), a str is parsed or raises
\* ValueError (also when it has more than MaxStrDigits digits), every other
\* type raises TypeError
py_int(x) ==
    CASE x.t = "exc" -> x
      [] x.t = "int" -> x
      [] x.t = "bool" -> PyInt(IF x.b THEN 1 ELSE 0)
      [] x.t = "float" -> IF x.m = <<0>> THEN PyInt(0) ELSE BigInt(x.neg, Truncated(x))
      [] x.t = "inf" ->
           Exc("OverflowError", "cannot convert float infinity to integer", PyNone)
      [] x.t = "nan" -> Exc("ValueError", "cannot convert float NaN to integer", PyNone)
      [] x.t = "str" ->
           IF ExceedsDigitLimit(x.s)
           THEN Exc("ValueError", "Exceeds the limit (4300 digits) for integer string conversion",
                    PyNone)
           ELSE IF IsIntLiteral(x.s) THEN IntLiteral(x.s)
           ELSE Exc("ValueError", "invalid literal for int()", PyNone)
      [] OTHER -> Exc("TypeError", "int() argument must be a string or a number", PyNone)

\* float(x) of an int: the nearest float, which is x itself up to 2^53; an
\* int that is rounded to 2^1024 or beyond raises OverflowError
Finite(f) ==
    IF f.t = "inf" THEN Exc("OverflowError", "int too large to convert to float", PyNone)
    ELSE f

IntToFloat(x) == Finite(Nearest(x.neg, x.digits, 0))

\* float(x): a float is kept, an int or bool becomes the float of its
\* value, a str is parsed or raises ValueError, every other type raises
\* TypeError
py_float(x) ==
    CASE x.t = "exc" -> x
      [] x.t \in {"float", "inf", "nan"} -> x
      [] x.t \in {"int", "bool"} ->
           IntToFloat(IF x.t = "int" THEN x ELSE PyInt(IF x.b THEN 1 ELSE 0))
      [] x.t = "str" -> IF IsFloatLiteral(x.s) THEN FloatLiteral(x.s)
                        ELSE Exc("ValueError", "could not convert string to float", PyNone)
      [] OTHER -> Exc("TypeError", "float() argument must be a string or a number", PyNone)

\* x * 8 for a float x: the product by a power of two is exact, the
\* exponent grows by 3; from 2^1024 on the product is inf; zero, inf and nan
\* are kept, and so is the exception that float() raised
TimesEight(x) ==
    IF x.t \in {"exc", "inf", "nan"} \/ x.m = <<0>> THEN x
    ELSE IF x.e > 967 /\ BitLength(x.m) + x.e + 3 > 1024 THEN PyInf(x.neg)
    ELSE [x EXCEPT !.e = @ + 3]

----------------------------------------------------------------------------
(* The measurement tool and run_speedtest *)

\* The captured standard output: a text that is no JSON document, the text
\* of the JSON document of a value, the text of a JSON document that
\* json.loads gives up on (an integer of more than MaxStrDigits digits,
\* arrays nested deeper than the recursion limit of the interpreter), or
\* bytes that are no text in the encoding of the locale.
Text(chars) == [t |-> "text", chars |-> chars]
Json(value) == [t |-> "json", doc |-> value]
HugeInteger == [t |-> "json_beyond", limit |-> "digits"]
DeepNesting == [t |-> "json_beyond", limit |-> "recursion"]
Undecodable == [t |-> "bytes"]

\* json.loads(s): the value, or JSONDecodeError for a text that is no
\* document; the ValueError of int() and the RecursionError of the scanner
\* are no JSONDecodeError
json_loads(s) ==
    CASE s.t = "json" -> s.doc
      [] s.t = "json_beyond" /\ s.limit = "digits" ->
           Exc("ValueError", "Exceeds the limit (4300 digits) for integer string conversion",
               PyNone)
      [] s.t = "json_beyond" /\ s.limit = "recursion" ->
           Exc("RecursionError", "maximum recursion depth exceeded", PyNone)
      [] s.t = "text" -> Exc("JSONDecodeError", "Expecting value", PyNone)

\* bool(s) of a str: the empty string is false
Truthy(s) == ~(s.t = "text" /\ s.chars = <<>>)

\* line 185 and line 181: the except clauses that catch json.JSONDecodeError
IsJSONDecodeError(x) == Raised(x) /\ x.e.type = "JSONDecodeError"

\* bytes_to_bits without the factor 8: bytes published as bits
bytes_to_bits_unconverted(bytes_per_sec) == py_float(bytes_per_sec)

\* lines 70-72: float(bytes_per_sec) * 8
bytes_to_bits(bytes_per_sec) == TimesEight(py_float(bytes_per_sec))

Metrics(m) == [t |-> "metrics", m |-> m]

\* the dict of lines 151-158 of the values of its items: the items are
\* evaluated in order and the first exception ends the evaluation
MetricsDict(items) ==
    IF \E i \in 1..Len(items) : Raised(items[i])
    THEN items[CHOOSE i \in 1..Len(items) :
                   Raised(items[i]) /\ \A j \in 1..(i - 1) : ~Raised(items[j])]
    ELSE Metrics([server_id |-> items[1], jitter |-> items[2], ping |-> items[3],
                  download |-> items[4], upload |-> items[5], up |-> PyInt(1)])

\* lines 151-158
ExtractMetrics(data) ==
    MetricsDict(<<py_int(Subscript(Subscript(data, "server"), "id")),
                  py_float(Subscript(Subscript(data, "ping"), "jitter")),
                  py_float(Subscript(Subscript(data, "ping"), "latency")),
                  bytes_to_bits(Subscript(Subscript(data, "download"), "bandwidth")),
                  bytes_to_bits(Subscript(Subscript(data, "upload"), "bandwidth"))>>)

\* raise SpeedtestError(f"Speedtest error: {data['error']}")
RaiseReported(data) ==
    LET e == Subscript(data, "error")
    IN  IF Raised(e) THEN e ELSE Exc("SpeedtestError", "Speedtest error: ", e)

\* ParseOutput looking for the error key only in payloads that are no result
ParseOutput_type_first(stdout) ==
    LET data == json_loads(stdout)
        has_error == Contains(data, "error")
        type == DictGet(data, "type")
    IN  IF IsJSONDecodeError(data)
        THEN Exc("SpeedtestError", "Invalid JSON output from speedtest", PyNone)
        ELSE IF Raised(data) THEN data
        ELSE IF Raised(type) THEN type
        ELSE IF type = PyStr(Chars("result")) THEN ExtractMetrics(data)
        ELSE IF Raised(has_error) THEN has_error
        ELSE IF has_error.b THEN RaiseReported(data)
        ELSE Exc("SpeedtestError", "Unexpected speedtest output type: ", type)

\* lines 140-168: the tool exited with status zero
ParseOutput(stdout) ==
    LET data == json_loads(stdout)
        has_error == Contains(data, "error")
        type == DictGet(data, "type")
    IN  IF IsJSONDecodeError(data)
        THEN Exc("SpeedtestError", "Invalid JSON output from speedtest", PyNone)
        ELSE IF Raised(data) THEN data
        ELSE IF Raised(has_error) THEN has_error
        ELSE IF has_error.b THEN RaiseReported(data)
        ELSE IF Raised(type) THEN type
        ELSE IF type # PyStr(Chars("result"))
        THEN Exc("SpeedtestError", "Unexpected speedtest output type: ", type)
        ELSE ExtractMetrics(data)

\* lines 174-183: the tool exited with a non-zero status
CommandFailed(stdout) ==
    LET generic == Exc("SpeedtestError", "Speedtest command failed", PyNone)
        error_data == json_loads(stdout)
        has_error == Contains(error_data, "error")
    IN  IF ~Truthy(stdout) THEN generic
        ELSE IF IsJSONDecodeError(error_data) THEN generic
        ELSE IF Raised(error_data) THEN error_data
        ELSE IF Raised(has_error) THEN has_error
        ELSE IF has_error.b THEN RaiseReported(error_data)
        ELSE generic

\* What subprocess.run raises when the tool could not be started: there is
\* no such file on the PATH ("missing"), there is none and an entry of the
\* PATH is a file instead of a directory ("notdir"), the file may not be
\* executed ("denied"), or it is no program ("noexec")
NotStarted(exit) ==
    CASE exit = "missing" ->
           Exc("FileNotFoundError", "No such file or directory: 'speedtest'", PyNone)
      [] exit = "notdir" ->
           Exc("NotADirectoryError", "Not a directory: 'speedtest'", PyNone)
      [] exit = "denied" -> Exc("PermissionError", "Permission denied: 'speedtest'", PyNone)
      [] exit = "noexec" -> Exc("OSError", "Exec format error: 'speedtest'", PyNone)

\* the exception of subprocess.run(text=True) when the output of the tool
\* cannot be decoded, whatever the exit status
NotDecoded == Exc("UnicodeDecodeError", "codec can't decode byte", PyNone)

\* What subprocess.run did: the tool could not be started, ran past the
\* timeout, or exited with a zero or non-zero status and a stdout. Lines
\* 170-187 catch TimeoutExpired, CalledProcessError and JSONDecodeError.
run_speedtest(proc) ==
    CASE proc.exit \in {"missing", "notdir", "denied", "noexec"} -> NotStarted(proc.exit)
      [] proc.exit = "timeout" -> Exc("SpeedtestError", "Speedtest timeout", PyNone)
      [] proc.exit \in {"zero", "nonzero"} /\ proc.stdout.t = "bytes" -> NotDecoded
      [] proc.exit = "nonzero" /\ proc.stdout.t # "bytes" -> CommandFailed(proc.stdout)
      [] proc.exit = "zero" /\ proc.stdout.t # "bytes" -> ParseOutput(proc.stdout)

----------------------------------------------------------------------------
(* The tool outcomes the model draws from *)

\* {"type": "result", "server": {"id": ..}, "ping": {"jitter": .., "latency": ..},
\*  "download": {"bandwidth": ..}, "upload": {"bandwidth": ..}}
Payload(id, jitter, latency, down, up) ==
    PyDict([type |-> PyStr(Chars("result")),
            server |-> PyDict([id |-> id]),
            ping |-> PyDict([jitter |-> jitter, latency |-> latency]),
            download |-> PyDict([bandwidth |-> down]),
            upload |-> PyDict([bandwidth |-> up])])

\* the dict d with the key "error" added
WithError(d, message) ==
    PyDict([k \in DOMAIN d.d \cup {"error"} |->
               IF k = "error" THEN message ELSE d.d[k]])

NoServers == PyStr(<<"n", "o">>)

PayloadA == Payload(PyInt(1), PyInt(2), PyInt(3), PyInt(4), PyInt(5))
PayloadB == Payload(PyInt(2), PyInt(1), PyInt(1), PyInt(6), PyInt(2))

\* the results of measurements over a link that carries nothing, from the
\* servers 1 and 2
PayloadIdle == Payload(PyInt(1), PyInt(0), PyInt(0), PyInt(0), PyInt(0))
PayloadIdle2 == Payload(PyInt(2), PyInt(0), PyInt(0), PyInt(0), PyInt(0))

GoodOutputs == {Json(PayloadA), Json(PayloadB)}

IdleOutputs == {Json(PayloadIdle), Json(PayloadIdle2)}

\* payloads that pass the error and type checks and fail in the extraction
BrokenOutputs ==
    { Json(PyDict([type |-> PyStr(Chars("result"))])),
      Json(PyDict([type |-> PyStr(Chars("result")), server |-> PyInt(5)])),
      Json(Payload(PyStr(<<"x">>), PyInt(2), PyInt(3), PyInt(4), PyInt(5))),
      Json(Payload(PyInt(1), PyInt(2), PyNone, PyInt(4), PyInt(5))),
      Json(Payload(PyInt(1), PyInt(2), PyInt(3), PyInt(4), PyList(<<>>))) }

\* the result of the specification's example: jitter 1.2, latency 10.5,
\* 12500000 and 1250000 bytes per second
PayloadExample ==
    Payload(PyInt(12345), PyFloat(12, -1), PyFloat(105, -1), PyInt(12500000),
            PyInt(1250000))

\* a result with a fraction in every number
PayloadFractions ==
    Payload(PyFloat(19, -1), PyFloat(-5, -1), PyFloat(25, -2), PyFloat(15, -1),
            PyFloat(125, -3))

FloatOutputs == {Json(PayloadExample), Json(PayloadFractions)}

\* results with numbers at the ends of the floats: the ints 2^53, the last
\* one before the floats have gaps, 2^53 + 1 and 10^400, as the server and
\* as a bandwidth; the bandwidth 1e308, whose product is beyond the floats;
\* and numbers below 2.2250738585072014e-308, where the floats are the
\* multiples of 5e-324
ExtremeOutputs ==
    { Json(Payload(BigInt(FALSE, TwoTo[53]), PyInt(2), PyInt(3), BigInt(FALSE, TwoTo[53]),
                   PyInt(5))),
      Json(Payload(BigInt(FALSE, Succ(TwoTo[53])), PyInt(2), PyInt(3), PyInt(4), PyInt(5))),
      Json(Payload(PyInt(1), PyInt(2), PyInt(3), BigInt(FALSE, Succ(TwoTo[53])), PyInt(5))),
      Json(Payload(BigInt(FALSE, <<1>> \o Zeros(400)), PyInt(2), PyInt(3), PyInt(4),
                   PyInt(5))),
      Json(Payload(PyInt(1), PyInt(2), PyInt(3), BigInt(TRUE, <<1>> \o Zeros(400)),
                   PyInt(5))),
      Json(Payload(PyInt(1), PyInt(2), PyInt(3), PyFloat(1, 308), PyInt(5))),
      Json(Payload(PyInt(1), PyFloat(15, -324), PyFloat(-12345, -324), PyFloat(5, -324),
                   PyFloat(22, -309))) }

\* results whose numbers are written as strings (with signs, underscores,
\* whitespace and digits of other scripts, beyond the range of the floats),
\* as true and false, or are the Infinity, NaN and -0.0 that json.loads
\* reads
NumeralOutputs ==
    { Json(Payload(PyStr(<<"7">>), PyInt(2), PyStr(<<"1", "0">>), PyStr(<<"3">>), PyInt(5))),
      Json(Payload(PyStr(<<"-", "1">>), PyInt(2), PyInt(3), PyInt(4), PyInt(5))),
      Json(Payload(PyStr(<<" ", "7", " ">>), PyStr(<<"1", "5", "e", "-", "1">>),
                   PyStr(<<"-", "3">>), PyStr(<<"1", ".", "5">>),
                   PyStr(<<"i", "n", "f">>))),
      Json(Payload(PyStr(<<"1", "_", "0">>), PyStr(<<"+", "7">>),
                   PyStr(<<"n", "a", "n">>), PyInt(4), PyInt(5))),
      Json(Payload(PyBool(TRUE), PyBool(FALSE), PyInt(3), PyBool(TRUE), PyInt(5))),
      Json(Payload(PyInt(1), PyNan, PyInf(TRUE), PyInf(FALSE), PyInt(5))),
      Json(Payload(PyStr(<<"1", ".", "5">>), PyInt(2), PyInt(3), PyInt(4), PyInt(5))),
      Json(Payload(PyInf(FALSE), PyInt(2), PyInt(3), PyInt(4), PyInt(5))),
      Json(Payload(PyNan, PyInt(2), PyInt(3), PyInt(4), PyInt(5))),
      Json(Payload(PyInt(1), PyStr(<<"1", "_", "_", "0">>), PyInt(3), PyInt(4), PyInt(5))),
      Json(Payload(PyStr(<<"7", "\f">>), PyStr(<<"U+0663">>),
                   PyStr(<<"1", "e", "-", "4", "0", "0">>),
                   PyStr(<<"U+00A0", "7", "U+000B">>), PyStr(<<"-", "0">>))),
      Json(Payload(PyStr(<<"U+0661", "_", "U+FF10">>), PyStr(<<"2", "5", "e", "-", "2">>),
                   PyStr(<<"1", "e", "4", "0", "0">>), PyZero(TRUE),
                   PyStr(<<"-", "2", "e", "3", "0", "9">>))),
      Json(Payload(PyStr(<<"7", "U+001C">>), PyInt(2), PyInt(3), PyInt(4), PyInt(5))) }

\* objects that carry an error, or are no result
ErrorOutputs ==
    { Json(PyDict([error |-> NoServers])),
      Json(PyDict([type |-> PyStr(Chars("result")), error |-> NoServers])),
      Json(WithError(PayloadA, NoServers)),
      Json(WithError(PayloadB, PyNone)),
      Json(PyDict([type |-> PyStr(<<"l", "o", "g">>)])),
      Json(PyDict([message |-> NoServers])) }

\* JSON documents that are no object
NonObjectOutputs ==
    { Json(PyNone), Json(PyInt(5)), Json(PyBool(TRUE)), Json(PyFloat(15, -1)),
      Json(PyStr(<<"o", "k">>)), Json(PyStr(<<"x">> \o Chars("error"))),
      Json(PyList(<<>>)), Json(PyList(<<PyStr(Chars("error"))>>)) }

\* texts that are no JSON document
TextOutputs == {Text(<<>>), Text(<<"x">>)}

\* outputs that subprocess.run or json.loads cannot read
UnreadableOutputs == {Undecodable, HugeInteger, DeepNesting}

Stdouts ==
    GoodOutputs \cup IdleOutputs \cup FloatOutputs \cup ExtremeOutputs
        \cup BrokenOutputs \cup NumeralOutputs
        \cup ErrorOutputs \cup NonObjectOutputs \cup TextOutputs
        \cup UnreadableOutputs

Exited(status, stdout) == [exit |-> status, stdout |-> stdout]

\* the ways subprocess.run ends without an exit status of the tool
NoExits == {"missing", "notdir", "denied", "noexec", "timeout"}

ProcResults ==
    {Exited(st, Text(<<>>)) : st \in NoExits}
        \cup {Exited(st, out) : st \in {"zero", "nonzero"}, out \in Stdouts}

\* the outcomes drawn while /health is served: two well-formed results, a
\* timeout, and a document that is no object
CoreProcs ==
    {Exited("zero", out) : out \in GoodOutputs}
        \cup {Exited("timeout", Text(<<>>)), Exited("zero", Json(PyInt(5)))}

\* the outcomes drawn while requests for /metrics interleave: two results
\* that differ in the server, and a timeout
PoolProcs ==
    {Exited("zero", out) : out \in IdleOutputs} \cup {Exited("timeout", Text(<<>>))}

NoProc == Exited("none", Text(<<>>))

\* what `speedtest --version` prints: the banner of the official tool with
\* its version, that banner after another line, the banner of another tool,
\* the official banner in lower case, nothing, bytes that are no text
Banners ==
    {Text(Chars("Speedtest by Ookla") \o <<" ", "1">>),
     Text(<<"w", " ">> \o Chars("Speedtest by Ookla")),
     Text(Chars("speedtest-cli") \o <<" ", "2">>),
     Text(<<"s">> \o Tail(Chars("Speedtest by Ookla"))),
     Text(<<>>),
     Undecodable}

\* the outcomes of subprocess.run(["speedtest", "--version"], ...)
VersionResults ==
    {Exited(st, Text(<<>>)) : st \in NoExits}
        \cup {Exited(st, b) : st \in {"zero", "nonzero"}, b \in Banners}

\* what which("speedtest") returns: None or the path of the executable
WhichResults == {PyNone, PyStr(<<"/", "s">>)}

----------------------------------------------------------------------------
(* The state *)

Threads == 4         \* serve(threads=4): the worker threads of waitress
MaxRequests == 2     \* at most so many requests are sent at a time
MaxClock == 1        \* the clock reads 0..MaxClock
MaxDuration == 1     \* SPEEDTEST_CACHE_DURATION is one of 0..MaxDuration

\* datetime.min, farther in the past than any reading of the clock
DatetimeMin == -2000000000

Workers == 1..Threads

\* the six gauges in the order of their construction (lines 36-51), which
\* is the order update_prometheus_metrics sets them in (lines 230-235) and
\* the order the registry collects them in
GaugeNames == <<"server_id", "jitter", "ping", "download", "upload", "up">>

VARIABLES
    CACHE_DURATION,   \* the configuration, read once at import
    clock,            \* what datetime.now() reads
    last_test_time,   \* the cache: when the cached result was captured
    cached_metrics,   \* the cache: None or the metrics of a measurement
    gauges,           \* the value of each of the six Gauge objects
    pc,               \* where each worker is in its route
    now,              \* get_metrics' local `now` of each worker
    proc,             \* what subprocess.run did in the worker's call
    invocations,      \* how often the worker's call started the tool
    metrics_data,     \* what the worker's get_metrics returned or raised
    next_gauge,       \* the gauge the worker sets or collects next
    collected,        \* the samples generate_latest() has collected so far
    response,         \* the worker's last response
    main              \* where main() is, with what its validation saw

vars == <<CACHE_DURATION, clock, last_test_time, cached_metrics, gauges, pc,
          now, proc, invocations, metrics_data, next_gauge, collected,
          response, main>>

cache == <<cached_metrics, last_test_time>>

\* lines 218-225: the dict of six zeros
ZeroMetrics ==
    [server_id |-> PyInt(0), jitter |-> PyInt(0), ping |-> PyInt(0),
     download |-> PyInt(0), upload |-> PyInt(0), up |-> PyInt(0)]

\* the gauges after their construction: each holds 0.0
ZeroGauges == [k \in DOMAIN ZeroMetrics |-> PyFloat(0, 0)]

\* what the gauges hold after Gauge.set of each value of the dict m: set
\* stores float(value)
AsGauges(m) == [k \in DOMAIN m |-> py_float(m[k])]

\* a response: the status and the body, a text or the collected samples
NoResponse == [status |-> 0, body |-> Text(<<>>)]

\* main() at line 300, about to validate the tool
Starting ==
    [pc |-> "validate", which |-> PyNone, version |-> NoProc, exit_code |-> PyNone]

\* main() in serve() (lines 304-311): the validation has succeeded, its
\* locals are gone
Serving ==
    [pc |-> "serve", which |-> PyNone, version |-> NoProc, exit_code |-> PyNone]

\* the module's globals after import (lines 36-61) and the idle workers
Imported ==
    /\ CACHE_DURATION \in 0..MaxDuration
    /\ clock = 0
    /\ last_test_time = DatetimeMin
    /\ cached_metrics = PyNone
    /\ gauges = ZeroGauges
    /\ pc = [w \in Workers |-> "idle"]
    /\ now = [w \in Workers |-> 0]
    /\ proc = [w \in Workers |-> NoProc]
    /\ invocations = [w \in Workers |-> 0]
    /\ metrics_data = [w \in Workers |-> PyNone]
    /\ next_gauge = [w \in Workers |-> 1]
    /\ collected = [w \in Workers |-> <<>>]
    /\ response = [w \in Workers |-> NoResponse]

\* the process has started: main() runs from its first line
Init == Imported /\ main = Starting

\* the server has started and waits for requests
InitServing == Imported /\ main = Serving

----------------------------------------------------------------------------
(* The clock: datetime.now() is the wall clock, which the system may set back *)

Tick ==
    /\ clock < MaxClock
    /\ clock' = clock + 1
    /\ UNCHANGED <<main, CACHE_DURATION, last_test_time, cached_metrics, gauges, pc,
                   now, proc, invocations, metrics_data, next_gauge, collected,
                   response>>

ClockSetBack ==
    /\ clock > 0
    /\ clock' = clock - 1
    /\ UNCHANGED <<main, CACHE_DURATION, last_test_time, cached_metrics, gauges, pc,
                   now, proc, invocations, metrics_data, next_gauge, collected,
                   response>>

----------------------------------------------------------------------------
(* The worker threads *)

\* the workers that are handling a request
InFlight == {v \in Workers : pc[v] # "idle"}

\* lines 304-311: an idle worker of the running server takes a request
Takes(w) ==
    /\ main.pc = "serve"
    /\ pc[w] = "idle"

\* The requests the clients send in the scenarios below: fewer than
\* MaxRequests are in flight when one arrives, and of the idle workers,
\* which are all alike, the first takes it.
Offered(w) ==
    /\ Cardinality(InFlight) < MaxRequests
    /\ \A v \in 1..(w - 1) : pc[v] # "idle"

----------------------------------------------------------------------------
(* GET /metrics on worker w: metrics() -> get_metrics() -> run_speedtest() *)

\* cache_filled without the test that caching is enabled
cache_filled_unguarded == cached_metrics # PyNone

\* lines 201-202: caching is enabled and there is a cached result
cache_filled ==
    /\ CACHE_DURATION > 0
    /\ cached_metrics # PyNone

\* cache_fresh with the freshness window one second short
cache_fresh_off_by_one(n) == (n - last_test_time) < CACHE_DURATION - 1

\* cache_fresh with <= for <: an entry exactly CACHE_DURATION old is served
cache_fresh_inclusive(n) == (n - last_test_time) <= CACHE_DURATION

\* cache_fresh with the comparison turned round: > for <
cache_fresh_backwards(n) == (n - last_test_time) > CACHE_DURATION

\* line 203, for the reading n of the clock
cache_fresh(n) == (n - last_test_time) < CACHE_DURATION

\* lines 218-225: what get_metrics returns when the measurement failed
FailureResult == Metrics(ZeroMetrics)

\* worker w takes a request for /metrics: metrics() calls get_metrics(),
\* which reads the clock (line 199)
StartScrape(w) ==
    /\ Takes(w)
    /\ pc' = [pc EXCEPT ![w] = "check"]
    /\ now' = [now EXCEPT ![w] = clock]
    /\ UNCHANGED <<main, CACHE_DURATION, clock, last_test_time, cached_metrics,
                   gauges, proc, invocations, metrics_data, next_gauge,
                   collected, response>>

\* CheckSlot with one measurement at a time: a call that finds no entry
\* waits while the tool runs for another call
CheckSlot_single_flight(w) ==
    /\ pc[w] = "check"
    /\ cache_filled \/ \A v \in Workers \ {w} : pc[v] # "running"
    /\ IF cache_filled
       THEN /\ pc' = [pc EXCEPT ![w] = "age"]
            /\ UNCHANGED <<invocations, now>>
       ELSE /\ invocations' = [invocations EXCEPT ![w] = @ + 1]
            /\ pc' = [pc EXCEPT ![w] = "running"]
            /\ now' = now
    /\ UNCHANGED <<main, CACHE_DURATION, clock, last_test_time, cached_metrics,
                   gauges, proc, metrics_data, next_gauge, collected, response>>

\* lines 200-202: CACHE_DURATION and cached_metrics are read; `and` stops
\* at the first false operand, and then the tool is started (lines 210,
\* 136)
CheckSlot(w) ==
    /\ pc[w] = "check"
    /\ IF cache_filled
       THEN /\ pc' = [pc EXCEPT ![w] = "age"]
            /\ UNCHANGED <<invocations, now>>
       ELSE /\ invocations' = [invocations EXCEPT ![w] = @ + 1]
            /\ pc' = [pc EXCEPT ![w] = "running"]
            /\ now' = now
    /\ UNCHANGED <<main, CACHE_DURATION, clock, last_test_time, cached_metrics,
                   gauges, proc, metrics_data, next_gauge, collected, response>>

\* lines 203-206: last_test_time is read and compared; when the entry is
\* too old the tool is started (lines 210, 136)
CheckAge(w) ==
    /\ pc[w] = "age"
    /\ IF cache_fresh(now[w])
       THEN /\ pc' = [pc EXCEPT ![w] = "hit"]
            /\ UNCHANGED invocations
       ELSE /\ invocations' = [invocations EXCEPT ![w] = @ + 1]
            /\ pc' = [pc EXCEPT ![w] = "running"]
    /\ UNCHANGED <<main, CACHE_DURATION, clock, last_test_time, cached_metrics,
                   gauges, now, proc, metrics_data, next_gauge, collected,
                   response>>

\* lines 207-208: cached_metrics is read again and returned
ReturnCached(w) ==
    /\ pc[w] = "hit"
    /\ metrics_data' = [metrics_data EXCEPT ![w] = cached_metrics]
    /\ pc' = [pc EXCEPT ![w] = "update"]
    /\ now' = [now EXCEPT ![w] = 0]
    /\ UNCHANGED <<main, CACHE_DURATION, clock, last_test_time, cached_metrics,
                   gauges, proc, invocations, next_gauge, collected, response>>

\* the error response without its status
ErrorResponse_status_ok == [status |-> 200, body |-> Text(<<>>)]

\* lines 282-285: the response of metrics() to an exception
ErrorResponse == [status |-> 500, body |-> Text(<<>>)]

\* ToolEnds with the measurements taking turns: the result of a call is
\* handled only when no other call has the tool running
ToolEnds_in_turn(w, p) ==
    /\ pc[w] = "running"
    /\ \A v \in Workers \ {w} : pc[v] # "running"
    /\ proc' = [proc EXCEPT ![w] = p]
    /\ \E r \in {run_speedtest(p)} :
           IF ~Raised(r)
           THEN /\ cached_metrics' = r
                /\ pc' = [pc EXCEPT ![w] = "store_time"]
                /\ UNCHANGED <<last_test_time, metrics_data, response, now>>
           ELSE IF r.e.type = "SpeedtestError"
           THEN /\ metrics_data' = [metrics_data EXCEPT ![w] = FailureResult]
                /\ pc' = [pc EXCEPT ![w] = "update"]
                /\ now' = [now EXCEPT ![w] = 0]
                /\ UNCHANGED <<cached_metrics, last_test_time, response>>
           ELSE /\ metrics_data' = [metrics_data EXCEPT ![w] = r]
                /\ response' = [response EXCEPT ![w] = ErrorResponse]
                /\ pc' = [pc EXCEPT ![w] = "done"]
                /\ now' = [now EXCEPT ![w] = 0]
                /\ UNCHANGED <<cached_metrics, last_test_time>>
    /\ UNCHANGED <<main, CACHE_DURATION, clock, gauges, invocations, next_gauge,
                   collected>>

\* ToolEnds with the zero result of a failed measurement stored in the cache
ToolEnds_caches_failure(w, p) ==
    /\ pc[w] = "running"
    /\ proc' = [proc EXCEPT ![w] = p]
    /\ \E r \in {run_speedtest(p)} :
           IF ~Raised(r)
           THEN /\ cached_metrics' = r
                /\ pc' = [pc EXCEPT ![w] = "store_time"]
                /\ UNCHANGED <<last_test_time, metrics_data, response, now>>
           ELSE IF r.e.type = "SpeedtestError"
           THEN /\ metrics_data' = [metrics_data EXCEPT ![w] = FailureResult]
                /\ pc' = [pc EXCEPT ![w] = "update"]
                /\ now' = [now EXCEPT ![w] = 0]
                /\ cached_metrics' = FailureResult
                /\ UNCHANGED <<last_test_time, response>>
           ELSE /\ metrics_data' = [metrics_data EXCEPT ![w] = r]
                /\ response' = [response EXCEPT ![w] = ErrorResponse]
                /\ pc' = [pc EXCEPT ![w] = "done"]
                /\ now' = [now EXCEPT ![w] = 0]
                /\ UNCHANGED <<cached_metrics, last_test_time>>
    /\ UNCHANGED <<main, CACHE_DURATION, clock, gauges, invocations, next_gauge,
                   collected>>

\* subprocess.run ends with p (lines 136-138); run_speedtest returns the
\* metrics, which get_metrics stores (line 212), or raises: a SpeedtestError
\* is answered with the zero result (lines 216-225), any other exception
\* leaves get_metrics and is caught by metrics() (lines 282-285)
ToolEnds(w, p) ==
    /\ pc[w] = "running"
    /\ proc' = [proc EXCEPT ![w] = p]
    /\ \E r \in {run_speedtest(p)} :
           IF ~Raised(r)
           THEN /\ cached_metrics' = r
                /\ pc' = [pc EXCEPT ![w] = "store_time"]
                /\ UNCHANGED <<last_test_time, metrics_data, response, now>>
           ELSE IF r.e.type = "SpeedtestError"
           THEN /\ metrics_data' = [metrics_data EXCEPT ![w] = FailureResult]
                /\ pc' = [pc EXCEPT ![w] = "update"]
                /\ now' = [now EXCEPT ![w] = 0]
                /\ UNCHANGED <<cached_metrics, last_test_time, response>>
           ELSE /\ metrics_data' = [metrics_data EXCEPT ![w] = r]
                /\ response' = [response EXCEPT ![w] = ErrorResponse]
                /\ pc' = [pc EXCEPT ![w] = "done"]
                /\ now' = [now EXCEPT ![w] = 0]
                /\ UNCHANGED <<cached_metrics, last_test_time>>
    /\ UNCHANGED <<main, CACHE_DURATION, clock, gauges, invocations, next_gauge,
                   collected>>

\* lines 213-214: the capture time is stored and the local `metrics`, the
\* result of this call's run_speedtest, is returned
StoreTime(w) ==
    /\ pc[w] = "store_time"
    /\ last_test_time' = now[w]
    /\ metrics_data' = [metrics_data EXCEPT ![w] = run_speedtest(proc[w])]
    /\ pc' = [pc EXCEPT ![w] = "update"]
    /\ now' = [now EXCEPT ![w] = 0]
    /\ UNCHANGED <<main, CACHE_DURATION, clock, cached_metrics, gauges, proc,
                   invocations, next_gauge, collected, response>>

\* lines 230-235: update_prometheus_metrics sets the six gauges one after
\* the other; each step is one Gauge.set, which stores float(value). When
\* float() raises, the gauge and the ones after it keep their values and
\* metrics() answers the exception (lines 282-285)
UpdateGauge(w) ==
    /\ pc[w] = "update"
    /\ \E value \in {py_float(metrics_data[w].m[GaugeNames[next_gauge[w]]])} :
           IF Raised(value)
           THEN /\ response' = [response EXCEPT ![w] = ErrorResponse]
                /\ next_gauge' = [next_gauge EXCEPT ![w] = 1]
                /\ pc' = [pc EXCEPT ![w] = "done"]
                /\ UNCHANGED gauges
           ELSE /\ gauges' = [gauges EXCEPT ![GaugeNames[next_gauge[w]]] = value]
                /\ IF next_gauge[w] = Len(GaugeNames)
                   THEN /\ next_gauge' = [next_gauge EXCEPT ![w] = 1]
                        /\ pc' = [pc EXCEPT ![w] = "generate"]
                   ELSE /\ next_gauge' = [next_gauge EXCEPT ![w] = @ + 1]
                        /\ UNCHANGED pc
                /\ UNCHANGED response
    /\ UNCHANGED <<main, CACHE_DURATION, clock, last_test_time, cached_metrics, now,
                   proc, invocations, metrics_data, collected>>

\* the samples s, one of each gauge, as the body of a response
Samples(s) == Metrics([k \in DOMAIN ZeroMetrics |->
                          s[CHOOSE i \in DOMAIN GaugeNames : GaugeNames[i] = k]])

\* lines 279-280: generate_latest() collects the gauges one after the
\* other, each step reading the value of one Gauge; with the last sample
\* the response is built
Collect(w) ==
    /\ pc[w] = "generate"
    /\ LET s == Append(collected[w], gauges[GaugeNames[next_gauge[w]]])
       IN  IF next_gauge[w] = Len(GaugeNames)
           THEN /\ response' = [response EXCEPT
                                   ![w] = [status |-> 200, body |-> Samples(s)]]
                /\ collected' = [collected EXCEPT ![w] = <<>>]
                /\ next_gauge' = [next_gauge EXCEPT ![w] = 1]
                /\ pc' = [pc EXCEPT ![w] = "done"]
           ELSE /\ collected' = [collected EXCEPT ![w] = s]
                /\ next_gauge' = [next_gauge EXCEPT ![w] = @ + 1]
                /\ UNCHANGED <<pc, response>>
    /\ UNCHANGED <<main, CACHE_DURATION, clock, last_test_time, cached_metrics,
                   gauges, now, proc, invocations, metrics_data>>

\* the response is sent and the worker is free for the next request; the
\* locals of the finished call are gone
Finish(w) ==
    /\ pc[w] = "done"
    /\ pc' = [pc EXCEPT ![w] = "idle"]
    /\ proc' = [proc EXCEPT ![w] = NoProc]
    /\ invocations' = [invocations EXCEPT ![w] = 0]
    /\ metrics_data' = [metrics_data EXCEPT ![w] = PyNone]
    /\ response' = [response EXCEPT ![w] = NoResponse]
    /\ UNCHANGED <<main, CACHE_DURATION, clock, last_test_time, cached_metrics,
                   gauges, now, next_gauge, collected>>

----------------------------------------------------------------------------
(* GET /health on worker w: health() *)

OkResponse == [status |-> 200, body |-> Text(Chars("OK"))]

\* the response to an exception x that leaves a view: Flask answers with
\* status 500 and its error page, which is written here as the exception
Unhandled(x) == [status |-> 500, body |-> x]

FailResponse == [status |-> 500, body |-> Text(Chars("ERROR"))]

\* lines 257-268: subprocess.run(..., timeout=5, check=True) raises
\* FileNotFoundError when there is no such tool, TimeoutExpired when it
\* runs past the timeout, CalledProcessError when it exits with a non-zero
\* status; these three are caught. The NotADirectoryError of a PATH with a
\* file among its entries and the PermissionError or OSError of a file
\* that cannot be executed leave health(). The output of the tool is
\* captured as bytes and not looked at.
health(p) ==
    CASE p.exit \in {"notdir", "denied", "noexec"} -> NotStarted(p.exit)
      [] p.exit = "missing" -> FailResponse
      [] p.exit = "timeout" -> FailResponse
      [] p.exit = "nonzero" -> FailResponse
      [] p.exit = "zero" -> OkResponse

\* worker w takes a request for /health and starts the version check
\* (line 258)
StartHealth(w) ==
    /\ Takes(w)
    /\ pc' = [pc EXCEPT ![w] = "version"]
    /\ UNCHANGED <<main, CACHE_DURATION, clock, last_test_time, cached_metrics,
                   gauges, now, proc, invocations, metrics_data, next_gauge,
                   collected, response>>

\* the version check ends with p and health() returns or raises (lines
\* 261-268)
HealthEnds(w, p) ==
    /\ pc[w] = "version"
    /\ proc' = [proc EXCEPT ![w] = p]
    /\ response' = [response EXCEPT ![w] = IF "status" \in DOMAIN health(p)
                                           THEN health(p)
                                           ELSE Unhandled(health(p))]
    /\ pc' = [pc EXCEPT ![w] = "done"]
    /\ UNCHANGED <<main, CACHE_DURATION, clock, last_test_time, cached_metrics,
                   gauges, now, invocations, metrics_data, next_gauge,
                   collected>>

----------------------------------------------------------------------------
(* The start of the process: main() and validate_speedtest_binary() *)

\* sys.exit(code)
SysExit(code) == Exc("SystemExit", "", PyInt(code))

\* validate_speedtest_binary without the test of the banner
validate_speedtest_binary_any_banner(path, v) ==
    IF path = PyNone \/ path = PyStr(<<>>) THEN SysExit(1)
    ELSE CASE v.exit \in {"missing", "notdir", "denied", "noexec"} -> NotStarted(v.exit)
           [] v.exit = "timeout" -> SysExit(1)
           [] v.exit \in {"zero", "nonzero"} /\ v.stdout.t = "bytes" -> NotDecoded
           [] v.exit = "nonzero" /\ v.stdout.t # "bytes" -> SysExit(1)
           [] v.exit = "zero" /\ v.stdout.t # "bytes" -> PyNone

\* lines 80-109, for the path that which("speedtest") returned and the
\* outcome v of the version check: the function returns None or raises
\* SystemExit(1); the FileNotFoundError, NotADirectoryError, PermissionError
\* or OSError of subprocess.run and the UnicodeDecodeError of an output
\* that is no text (text=True) are not caught
validate_speedtest_binary(path, v) ==
    IF path = PyNone \/ path = PyStr(<<>>) THEN SysExit(1)
    ELSE CASE v.exit \in {"missing", "notdir", "denied", "noexec"} -> NotStarted(v.exit)
           [] v.exit = "timeout" -> SysExit(1)
           [] v.exit \in {"zero", "nonzero"} /\ v.stdout.t = "bytes" -> NotDecoded
           [] v.exit = "nonzero" /\ v.stdout.t # "bytes" -> SysExit(1)
           [] v.exit = "zero" /\ v.stdout.t # "bytes" ->
                IF ~IsSubstring(Chars("Speedtest by Ookla"), v.stdout.chars)
                THEN SysExit(1)
                ELSE PyNone

\* the exit status of the interpreter when main() ends with the exception x:
\* the code of a SystemExit, 1 after the traceback of any other exception
ExitStatus(x) == IF x.e.type = "SystemExit" THEN x.e.detail ELSE PyInt(1)

\* line 300: main() calls validate_speedtest_binary(), which looks for the
\* tool and runs the version check
MainValidate(path, v) ==
    /\ main.pc = "validate"
    /\ main' = [main EXCEPT !.pc = "validated", !.which = path, !.version = v]
    /\ UNCHANGED <<CACHE_DURATION, clock, last_test_time, cached_metrics,
                   gauges, pc, now, proc, invocations, metrics_data,
                   next_gauge, collected, response>>

\* validate_speedtest_binary() returns and main() calls serve() (lines
\* 303-311), or it raises and the process ends
MainProceeds ==
    /\ main.pc = "validated"
    /\ LET r == validate_speedtest_binary(main.which, main.version)
       IN  main' = IF Raised(r)
                   THEN [main EXCEPT !.pc = "exit", !.exit_code = ExitStatus(r)]
                   ELSE Serving
    /\ UNCHANGED <<CACHE_DURATION, clock, last_test_time, cached_metrics,
                   gauges, pc, now, proc, invocations, metrics_data,
                   next_gauge, collected, response>>

----------------------------------------------------------------------------
(* The specifications *)

\* a step of a request for /metrics that worker w has taken, the tool
\* ending with one of the outcomes procs
RouteStep(w, procs) ==
    \/ CheckSlot(w)
    \/ CheckAge(w)
    \/ ReturnCached(w)
    \/ \E p \in procs : ToolEnds(w, p)
    \/ StoreTime(w)
    \/ UpdateGauge(w)
    \/ Collect(w)
    \/ Finish(w)

\* The program: main() validates the tool and serves; the worker threads
\* answer /metrics and /health, their steps interleaving at every access to
\* the cache and to the gauges; the tool ends in every way of ProcResults.
Next ==
    \/ \E path \in WhichResults, v \in VersionResults : MainValidate(path, v)
    \/ MainProceeds
    \/ Tick
    \/ ClockSetBack
    \/ \E w \in Workers :
          \/ StartScrape(w)
          \/ RouteStep(w, ProcResults)
          \/ StartHealth(w)
          \/ \E p \in VersionResults : HealthEnds(w, p)

Spec == Init /\ [][Next]_vars

\* The running server answering requests for /metrics that interleave,
\* the tool ending in the ways of PoolProcs.
NextPool ==
    \/ Tick
    \/ ClockSetBack
    \/ \E w \in Workers :
          \/ Offered(w) /\ StartScrape(w)
          \/ RouteStep(w, PoolProcs)

SpecPool == InitServing /\ [][NextPool]_vars

\* The running server answering one request for /metrics at a time, the
\* tool ending in every way of ProcResults.
NextTool ==
    \/ Tick
    \/ ClockSetBack
    \/ StartScrape(1)
    \/ RouteStep(1, ProcResults)

SpecTool == InitServing /\ [][NextTool]_vars

\* The process from its start: the validation, then the server, whose
\* workers answer /health while worker 1 also answers /metrics.
NextApp ==
    \/ \E path \in WhichResults, v \in VersionResults : MainValidate(path, v)
    \/ MainProceeds
    \/ Tick
    \/ ClockSetBack
    \/ Offered(1) /\ StartScrape(1)
    \/ RouteStep(1, CoreProcs)
    \/ \E w \in Workers :
          \/ Offered(w) /\ StartHealth(w)
          \/ \E p \in VersionResults : HealthEnds(w, p)
          \/ Finish(w)

SpecApp == Init /\ [][NextApp]_vars

\* the ways an invocation ends: the tool exits with a result, or the
\* timeout expires
LiveProcs == {Exited("zero", Json(PayloadIdle)), Exited("timeout", Text(<<>>))}

\* a step of a request that has been taken: the threads of the pool are
\* scheduled by the operating system, and subprocess.run(timeout=TIMEOUT)
\* returns or raises when the tool exits or the timeout expires
Progress(w) ==
    \/ CheckSlot(w)
    \/ CheckAge(w)
    \/ ReturnCached(w)
    \/ \E p \in LiveProcs : ToolEnds(w, p)
    \/ StoreTime(w)
    \/ UpdateGauge(w)
    \/ Collect(w)

\* The running server in which no taken request is left without its next
\* step.
NextLive ==
    \E w \in Workers :
        \/ Offered(w) /\ StartScrape(w)
        \/ RouteStep(w, LiveProcs)

SpecLive ==
    InitServing /\ [][NextLive]_vars /\ \A w \in Workers : WF_vars(Progress(w))

\* One request at a time under a clock that is never set back.
NextSerial ==
    \/ Tick
    \/ StartScrape(1)
    \/ RouteStep(1, ProcResults)

SpecSerial == InitServing /\ [][NextSerial]_vars

----------------------------------------------------------------------------
(* The result cache (get_metrics), under the worker pool *)

\* what get_metrics returns for the outcome r of run_speedtest
Returned(r) == IF Raised(r) THEN Metrics(ZeroMetrics) ELSE r

\* C1: with CACHE_DURATION > 0, a call that finds a cache entry whose age
\* (its clock reading minus last_test_time) is strictly less than
\* CACHE_DURATION does not start the tool and returns exactly the result the
\* cache holds, all six fields.
C1_FreshEntryIsServed ==
    [][\A w \in Workers :
          /\ (/\ pc[w] = "age" /\ pc'[w] # "age"
              /\ CACHE_DURATION > 0
              /\ cached_metrics # PyNone
              /\ now[w] - last_test_time < CACHE_DURATION)
             => (pc'[w] = "hit" /\ invocations'[w] = 0 /\ proc'[w] = NoProc)
          /\ (pc[w] = "hit" /\ pc'[w] # "hit")
             => (/\ pc'[w] = "update"
                 /\ metrics_data'[w] = cached_metrics
                 /\ \A k \in DOMAIN ZeroMetrics :
                       metrics_data'[w].m[k] = cached_metrics.m[k]
                 /\ invocations'[w] = 0
                 /\ proc'[w] = NoProc)]_vars

\* a call has returned a successful cached result without starting the tool
C1_Witness ==
    /\ CACHE_DURATION > 0
    /\ \E w \in Workers :
          /\ pc[w] = "update"
          /\ invocations[w] = 0
          /\ metrics_data[w] = cached_metrics
          /\ metrics_data[w].t = "metrics"
          /\ metrics_data[w].m.up = PyInt(1)

\* C2: with CACHE_DURATION > 0, a call that finds no cache entry, or one whose
\* age is CACHE_DURATION or more, starts the tool; no call starts it twice, and
\* what the call returns is the result of its own invocation.
C2_StaleOrEmptyInvokesOnce ==
    [][\A w \in Workers :
          /\ (/\ pc[w] = "check" /\ pc'[w] # "check"
              /\ CACHE_DURATION > 0
              /\ cached_metrics = PyNone)
             => (pc'[w] = "running" /\ invocations'[w] = 1)
          /\ (/\ pc[w] = "age" /\ pc'[w] # "age"
              /\ CACHE_DURATION > 0
              /\ now[w] - last_test_time >= CACHE_DURATION)
             => (pc'[w] = "running" /\ invocations'[w] = 1)
          /\ invocations'[w] <= 1
          /\ (pc[w] \in {"running", "store_time"} /\ pc'[w] = "update")
             => (/\ invocations'[w] = 1
                 /\ metrics_data'[w] = Returned(run_speedtest(proc'[w])))]_vars

\* the tool runs for a call that found an entry exactly CACHE_DURATION old
C2_Witness ==
    /\ CACHE_DURATION > 0
    /\ cached_metrics # PyNone
    /\ \E w \in Workers :
          /\ pc[w] = "running"
          /\ invocations[w] = 1
          /\ now[w] - last_test_time = CACHE_DURATION
          /\ \A v \in Workers \ {w} : pc[v] = "idle"

\* C3: with CACHE_DURATION = 0 every call starts the tool, whatever the cache
\* holds and whatever the clock reads: no call is past the cache check without
\* its one invocation, and none has a result without an outcome of the tool.
C3_NoCachingWhenDisabled ==
    CACHE_DURATION = 0 =>
        \A w \in Workers :
            /\ pc[w] \notin {"idle", "check"} => invocations[w] = 1
            /\ pc[w] \in {"update", "generate", "done"} => proc[w] # NoProc

\* caching is disabled, the cache holds a result captured after the reading
\* of the clock this call took, and the call runs the tool
C3_Witness ==
    /\ CACHE_DURATION = 0
    /\ cached_metrics # PyNone
    /\ \E w \in Workers : pc[w] = "running" /\ now[w] < last_test_time

\* C4: the step in which a call's invocation fails (the tool does not
\* start, runs past the timeout, exits with a non-zero status, or prints
\* what run_speedtest can make no result of) leaves cached_metrics and
\* last_test_time as they were, and the call returns the result with up = 0
\* and the five other fields 0.
C4_FailureLeavesCache ==
    [][\A w \in Workers :
          (/\ pc[w] = "running" /\ pc'[w] # "running"
           /\ Raised(run_speedtest(proc'[w])))
          => (/\ cached_metrics' = cached_metrics
              /\ last_test_time' = last_test_time
              /\ pc'[w] = "update"
              /\ metrics_data'[w] = Metrics(ZeroMetrics))]_vars

\* C6: last_test_time never decreases: every write stores a value greater
\* than or equal to the one it replaces.
C6_CapturedAtNonDecreasing == [][last_test_time' >= last_test_time]_vars

----------------------------------------------------------------------------
(* run_speedtest and the /metrics route, over every outcome of the tool *)

\* C5: get_metrics never raises: when the tool timed out or exited, with a
\* zero or a non-zero status and whatever output, the call returns a result
\* with up = 1 or the zero result.
C5_GetMetricsNeverRaises ==
    \A w \in Workers :
        proc[w].exit \in {"timeout", "nonzero", "zero"} =>
            /\ ~Raised(metrics_data[w])
            /\ pc[w] \in {"update", "generate", "done"} =>
                  metrics_data[w].m.up = PyInt(1)
                     \/ metrics_data[w] = Metrics(ZeroMetrics)

\* the captured output is the JSON document of an object with the key "error"
HasErrorField(stdout) ==
    /\ stdout.t = "json"
    /\ stdout.doc.t = "dict"
    /\ "error" \in DOMAIN stdout.doc.d

ReportedFailure(stdout) ==
    Exc("SpeedtestError", "Speedtest error: ", stdout.doc.d["error"])

\* C7: a payload with an "error" key is a reported failure although the tool
\* exited with status zero, whatever its type and its other fields: the call
\* returns the zero result, the cache is left alone, and the scrape answers
\* with up = 0 and the five other gauges 0.
C7_ErrorKeyIsFailure ==
    [][\A w \in Workers :
          /\ (/\ pc[w] = "running" /\ pc'[w] # "running"
              /\ proc'[w].exit = "zero"
              /\ HasErrorField(proc'[w].stdout))
             => (/\ run_speedtest(proc'[w]) = ReportedFailure(proc'[w].stdout)
                 /\ pc'[w] = "update"
                 /\ metrics_data'[w] = Metrics(ZeroMetrics)
                 /\ cached_metrics' = cached_metrics
                 /\ last_test_time' = last_test_time)
          /\ (/\ pc[w] = "generate" /\ pc'[w] = "done"
              /\ proc[w].exit = "zero"
              /\ HasErrorField(proc[w].stdout))
             => response'[w] = [status |-> 200, body |-> Metrics(ZeroGauges)]]_vars

\* a complete result payload that also carries an error was answered with the
\* zero gauges, the cache still holding an earlier result
C7_Witness ==
    /\ cached_metrics # PyNone
    /\ \E w \in Workers :
          /\ pc[w] = "done"
          /\ proc[w] = Exited("zero", Json(WithError(PayloadA, NoServers)))
          /\ response[w] = [status |-> 200, body |-> Metrics(ZeroGauges)]

\* C8: a non-zero exit status always yields a measurement failure, whatever
\* the captured output: with the message of the "error" field when the output
\* is JSON with that field, with the generic message otherwise.
C8_NonZeroExitIsFailure ==
    \A w \in Workers :
        proc[w].exit = "nonzero" =>
            run_speedtest(proc[w]) =
                IF HasErrorField(proc[w].stdout)
                THEN ReportedFailure(proc[w].stdout)
                ELSE Exc("SpeedtestError", "Speedtest command failed", PyNone)

\* d[k1][k2] is there and is a number of one of the kinds
HasNumber(d, k1, k2, kinds) ==
    /\ k1 \in DOMAIN d.d
    /\ d.d[k1].t = "dict"
    /\ k2 \in DOMAIN d.d[k1].d
    /\ d.d[k1].d[k2].t \in kinds

\* the tool exited with status zero and a payload of the expected shape:
\* an integer server id, the other four fields integers or decimal numbers
ValidResult(p) ==
    /\ p.exit = "zero"
    /\ p.stdout.t = "json"
    /\ p.stdout.doc.t = "dict"
    /\ "error" \notin DOMAIN p.stdout.doc.d
    /\ "type" \in DOMAIN p.stdout.doc.d
    /\ p.stdout.doc.d["type"] = PyStr(Chars("result"))
    /\ HasNumber(p.stdout.doc, "server", "id", {"int"})
    /\ HasNumber(p.stdout.doc, "ping", "jitter", {"int", "float"})
    /\ HasNumber(p.stdout.doc, "ping", "latency", {"int", "float"})
    /\ HasNumber(p.stdout.doc, "download", "bandwidth", {"int", "float"})
    /\ HasNumber(p.stdout.doc, "upload", "bandwidth", {"int", "float"})

\* the float y is 2^n times the number x, an int or a float
IsTimesTwoTo(y, n, x) ==
    /\ y.t = "float"
    /\ y.neg = x.neg
    /\ IF x.t = "int" THEN y.e >= 0 /\ Doubled(y.m, y.e) = Doubled(x.digits, n)
       ELSE IF x.m = <<0>> THEN y.m = <<0>>
       ELSE y.m = x.m /\ y.e = x.e + n

\* r is the normalized result the specification gives for the payload d
IsNormalized(r, d) ==
    /\ r.t = "metrics"
    /\ r.m.up = PyInt(1)
    /\ r.m.server_id = d.d["server"].d["id"]
    /\ IsTimesTwoTo(r.m.jitter, 0, d.d["ping"].d["jitter"])
    /\ IsTimesTwoTo(r.m.ping, 0, d.d["ping"].d["latency"])
    /\ IsTimesTwoTo(r.m.download, 3, d.d["download"].d["bandwidth"])
    /\ IsTimesTwoTo(r.m.upload, 3, d.d["upload"].d["bandwidth"])

\* the body b of a response shows the six values of the result r
Shows(b, r) ==
    /\ b.t = "metrics"
    /\ \A k \in DOMAIN ZeroMetrics : IsTimesTwoTo(b.m[k], 0, r.m[k])

\* what the specification says of the request of worker w that ran the tool
\* and got a valid result
PayloadNormalized(w) ==
    /\ pc[w] \in {"store_time", "update", "generate", "done"}
    /\ pc[w] = "store_time" => IsNormalized(cached_metrics, proc[w].stdout.doc)
    /\ pc[w] # "store_time" => IsNormalized(metrics_data[w], proc[w].stdout.doc)
    /\ pc[w] = "done" =>
          /\ response[w].status = 200
          /\ Shows(response[w].body, metrics_data[w])

\* C9 as it is written: on a valid result payload the call returns up = 1,
\* server_id, jitter and ping as in the payload and download and upload 8
\* times the payload's bandwidths; these values are stored and are the ones
\* the scrape publishes.
C9_ValidPayloadNormalized ==
    \A w \in Workers : ValidResult(proc[w]) => PayloadNormalized(w)

\* an int up to 2^53, which float() keeps as it is, or a float
IsFloatSized(x) == x.t = "int" => ~Less(TwoTo[53], x.digits)

\* 8 times the number x, an int up to 2^53 or a float, is below 2^1024
HasProduct(x) ==
    x.t = "int" \/ x.m = <<0>> \/ x.e <= 967 \/ BitLength(x.m) + x.e + 3 <= 1024

\* the numbers of the payload of p are within the floats
WithinFloats(p) ==
    LET d == p.stdout.doc.d
    IN  /\ IsFloatSized(d["server"].d["id"])
        /\ IsFloatSized(d["ping"].d["jitter"])
        /\ IsFloatSized(d["ping"].d["latency"])
        /\ IsFloatSized(d["download"].d["bandwidth"])
        /\ IsFloatSized(d["upload"].d["bandwidth"])
        /\ HasProduct(d["download"].d["bandwidth"])
        /\ HasProduct(d["upload"].d["bandwidth"])

\* C9, amended: on a valid result payload whose integers are at most 2^53
\* in magnitude and whose bandwidths times 8 are below 2^1024, the call
\* returns up = 1, server_id, jitter and ping as in the payload and download
\* and upload exactly 8 times the payload's bandwidths; these values are
\* stored and are the ones the scrape publishes.
C9_FloatSizedPayloadNormalized ==
    \A w \in Workers :
        ValidResult(proc[w]) /\ WithinFloats(proc[w]) => PayloadNormalized(w)

\* the scrape of the payload with jitter 1.2, latency 10.5 and the bandwidths
\* 12500000 and 1250000 has published 100000000 and 10000000
C9_Witness ==
    \E w \in Workers :
        /\ pc[w] = "done"
        /\ proc[w] = Exited("zero", Json(PayloadExample))
        /\ response[w].status = 200
        /\ response[w].body.m.server_id = PyFloat(12345, 0)
        /\ response[w].body.m.jitter = PyFloat(12, -1)
        /\ response[w].body.m.ping = PyFloat(105, -1)
        /\ response[w].body.m.download = PyFloat(100000000, 0)
        /\ response[w].body.m.upload = PyFloat(10000000, 0)
        /\ response[w].body.m.up = PyFloat(1, 0)

\* Gauge.set raises for one of the values of the result r
SettingRaises(r) ==
    \E i \in DOMAIN GaugeNames : Raised(py_float(r.m[GaugeNames[i]]))

\* C10: the metrics route never propagates an exception: a request ends with
\* status 500 and an empty body when get_metrics or the update of the gauges
\* raised, with status 200 and the serialized gauges in every other case, and
\* the worker goes on to the next request the server hands it.
C10_RouteAbsorbsExceptions ==
    \A w \in Workers :
        /\ pc[w] = "done" =>
              /\ response[w] =
                    IF Raised(metrics_data[w]) \/ SettingRaises(metrics_data[w])
                    THEN [status |-> 500, body |-> Text(<<>>)]
                    ELSE [status |-> 200, body |-> Metrics(gauges)]
              /\ ENABLED Finish(w)
        /\ main.pc = "serve"
        /\ pc[w] = "idle" => ENABLED StartScrape(w)

\* a request whose get_metrics raised was answered with status 500
C10_Witness ==
    \E w \in Workers :
        /\ pc[w] = "done"
        /\ Raised(metrics_data[w])
        /\ response[w].status = 500

----------------------------------------------------------------------------
(* The /health route and the start of the process *)

\* C11: the response of /health depends on the outcome of its own version
\* check only: OK with status 200 exactly when the check ended with exit
\* status zero, ERROR with status 500 when the tool is absent (there is no
\* such file on the PATH, whatever else the PATH names), exited with a
\* non-zero status or timed out, whatever the cache holds; no step of the
\* request changes cached_metrics, last_test_time or the gauges.
C11_HealthDependsOnCheckOnly ==
    [][\A w \in Workers :
          /\ pc[w] = "version" /\ pc'[w] # "version" =>
                /\ response'[w] = [status |-> 200, body |-> Text(<<"O", "K">>)]
                      <=> proc'[w].exit = "zero"
                /\ proc'[w].exit \in {"missing", "notdir", "nonzero", "timeout"} =>
                      response'[w] = [status |-> 500,
                                      body |-> Text(<<"E", "R", "R", "O", "R">>)]
          /\ (pc[w] = "version" \/ pc'[w] = "version") /\ pc'[w] # pc[w] =>
                UNCHANGED <<cached_metrics, last_test_time, gauges>>]_vars

\* the validation that main.which and main.version record has succeeded
ValidationSucceeded ==
    /\ main.which.t = "str"
    /\ main.version.exit = "zero"
    /\ main.version.stdout.t = "text"
    /\ \E i \in 1..(Len(main.version.stdout.chars) - 17) :
          SubSeq(main.version.stdout.chars, i, i + 17) =
              Chars("Speedtest by Ookla")

\* C15: the validation comes before the server: when the tool is missing,
\* the version check fails or times out, or the banner lacks "Speedtest by
\* Ookla", the process ends with a non-zero exit status and stays ended;
\* serve() starts only after a successful validation, and no request is
\* taken before.
C15_ValidationPrecedesServing ==
    [][/\ main.pc = "validated" /\ main' # main =>
              IF ValidationSucceeded
              THEN main'.pc = "serve"
              ELSE main'.pc = "exit" /\ main'.exit_code.t = "int"
                     /\ main'.exit_code # PyInt(0)
       /\ main'.pc = "serve" =>
              main.pc = "serve" \/ (main.pc = "validated" /\ ValidationSucceeded)
       /\ main.pc = "exit" => main' = main
       /\ main.pc # "serve" => \A w \in Workers : pc'[w] = "idle"]_vars

\* the process has ended with status 1 because the tool that was found and
\* ran printed the banner of another tool
C15_Witness ==
    /\ main.pc = "exit"
    /\ main.exit_code = PyInt(1)
    /\ main.which # PyNone
    /\ main.version = Exited("zero", Text(Chars("speedtest-cli") \o <<" ", "2">>))
    /\ \A w \in Workers : pc[w] = "idle"

----------------------------------------------------------------------------
(* The gauges, set one by one while the requests interleave *)

\* C12: when update_prometheus_metrics(m) completes, the six gauges hold
\* the six fields of m, none keeps an earlier value.
C12_GaugesHoldResult ==
    [][\A w \in Workers :
          pc[w] = "update" /\ pc'[w] = "generate"
          => gauges' = AsGauges(metrics_data[w].m)]_vars

\* C19: the six gauge values in the body of a 200 response are the six
\* fields of the result that the request's own get_metrics call returned.
C19_ResponseIsOwnResult ==
    \A w \in Workers :
        pc[w] = "done" /\ response[w].status = 200 =>
            response[w].body = Metrics(AsGauges(metrics_data[w].m))

----------------------------------------------------------------------------
(* The cache under the worker pool: invocations, content, capture time *)

\* C13: scrapes are not deduplicated: a call that finds the cache empty,
\* stale or disabled can start its own invocation in every state, also while
\* other calls have theirs in flight.
C13_ScrapesNotDeduplicated ==
    \A w \in Workers :
        /\ (pc[w] = "check" /\ (CACHE_DURATION = 0 \/ cached_metrics = PyNone))
           => ENABLED (CheckSlot(w) /\ pc'[w] = "running"
                         /\ invocations'[w] = invocations[w] + 1)
        /\ (pc[w] = "age" /\ now[w] - last_test_time >= CACHE_DURATION)
           => ENABLED (CheckAge(w) /\ pc'[w] = "running"
                         /\ invocations'[w] = invocations[w] + 1)

\* two calls that found no fresh entry have each their own invocation in
\* flight at the same time
C13_Witness ==
    \E w, v \in Workers :
        /\ w # v
        /\ pc[w] = "running" /\ invocations[w] = 1
        /\ pc[v] = "running" /\ invocations[v] = 1

\* C16: cached_metrics is None or a result with up = 1; a call returns a
\* result with up = 0 only when it started the tool itself and that
\* invocation failed, never from the cache.
C16_CacheHoldsSuccessOnly ==
    /\ cached_metrics = PyNone
          \/ (cached_metrics.t = "metrics" /\ cached_metrics.m.up = PyInt(1))
    /\ \A w \in Workers :
          /\ pc[w] \in {"update", "generate", "done"}
          /\ metrics_data[w].t = "metrics"
          /\ metrics_data[w].m.up = PyInt(0)
          => /\ invocations[w] = 1
             /\ proc[w] # NoProc
             /\ Raised(run_speedtest(proc[w]))

\* a call whose invocation timed out returns the zero result while the cache
\* keeps the successful result of an earlier call
C16_Witness ==
    \E w \in Workers :
        /\ pc[w] = "update"
        /\ proc[w].exit = "timeout"
        /\ metrics_data[w] = Metrics(ZeroMetrics)
        /\ cached_metrics # PyNone
        /\ cached_metrics.m.up = PyInt(1)

\* C17: a successful call stores as last_test_time the clock reading it took
\* at its start, before the tool ran, whatever the clock reads when the tool
\* has finished; a call is served from the cache only when caching is on and
\* its own reading is less than CACHE_DURATION after the stored reading.
C17_CapturedAtIsStartOfCall ==
    [][\A w \in Workers :
          /\ pc[w] = "idle" /\ pc'[w] = "check" => now'[w] = clock
          /\ pc[w] \in {"check", "age", "running"}
                /\ pc'[w] \in {"age", "hit", "running", "store_time"}
                => now'[w] = now[w]
          /\ pc[w] = "store_time" /\ pc'[w] # "store_time"
                => last_test_time' = now[w]
          /\ pc[w] = "hit" /\ pc'[w] = "update"
                => /\ CACHE_DURATION > 0
                   /\ now[w] - last_test_time < CACHE_DURATION
                   /\ metrics_data'[w] = cached_metrics]_vars

\* C18: the pair (cached_metrics, last_test_time) is written by one call:
\* when a call stores last_test_time and no other call is between its two
\* writes, cached_metrics is the result of that same call.
C18_PairWrittenByOneCall ==
    [][\A w \in Workers :
          /\ pc[w] = "store_time" /\ pc'[w] # "store_time"
          /\ \A v \in Workers \ {w} : pc[v] # "store_time"
          => cached_metrics' = run_speedtest(proc[w])]_vars

----------------------------------------------------------------------------
(* Termination of a scrape *)

\* C14: every scrape that was taken is answered: the invocation it starts
\* ends, by the exit of the tool or by the timeout, which gives the zero
\* result, and no scrape waits for another.
C14_ScrapeIsAnswered ==
    /\ \A w \in Workers : (pc[w] = "check") ~> (pc[w] = "done")
    /\ [](\A w \in Workers :
             pc[w] = "done" /\ proc[w].exit = "timeout" =>
                 response[w].status = 200
                    /\ metrics_data[w] = Metrics(ZeroMetrics))

\* a scrape whose invocation timed out has its response with the zero result
\* while the invocation of another scrape is still in flight
C14_Witness ==
    \E w, v \in Workers :
        /\ pc[w] = "done"
        /\ proc[w].exit = "timeout"
        /\ response[w].status = 200
        /\ metrics_data[w] = Metrics(ZeroMetrics)
        /\ pc[v] = "running"

----------------------------------------------------------------------------
(* One request at a time, the clock never set back *)

\* C20: with CACHE_DURATION > 0, every cache update stores a last_test_time
\* that is at least CACHE_DURATION after the one it replaces.
C20_UpdatesOneWindowApart ==
    [][\A w \in Workers :
          CACHE_DURATION > 0 /\ pc[w] = "store_time" /\ pc'[w] # "store_time"
          => last_test_time' - last_test_time >= CACHE_DURATION]_vars

\* the second update: the entry captured at 0 is replaced by the result of a
\* call that started at 1, with CACHE_DURATION = 1
C20_Witness ==
    /\ CACHE_DURATION = 1
    /\ pc[1] = "store_time"
    /\ last_test_time = 0
    /\ now[1] = 1
    /\ cached_metrics = run_speedtest(proc[1])

====
